---- MODULE Spec2Model ----
(***************************************************************************)
(* Model of src/app.ts: the plan-to-layout pass (render), the wire router   *)
(* (pathBetween) and the curve midpoint (bezierMidpoint).                   *)
(*                                                                          *)
(* Numbers.  A JavaScript number is kept as an integer count of sixteenths  *)
(* of a pixel (Px(n) is n pixels).  Every value the model builds is a       *)
(* multiple of 1/16 of small magnitude, where IEEE double arithmetic is     *)
(* exact, so +, -, * and the halvings of the code are exact here as well.   *)
(* Strings that the code builds from numbers and parses back (the curve     *)
(* descriptor) are sequences of one-character strings.                      *)
(***************************************************************************)
EXTENDS Integers, Sequences, FiniteSets, TLC

VARIABLES
    measure,        \* the renderer: node type -> size getBoundingClientRect reports
    plan,           \* argument of the running / last render call
    pc,             \* "idle" (no call running) or "loop" (inside render's for loop)
    stepIdx,        \* 1-based index of the next top-level step of the loop
    cursorY,        \* render's local cursorY
    nodePositions,  \* the global id -> NodeBBox record
    nodes,          \* canvas children of class .node, in insertion order
    wires,          \* svg children: the d attribute of each path, in order
    labels,         \* canvas children of class .branch-label, in order
    viewBox,        \* the svg viewBox attribute: "unset" or "content"
    status,         \* outcome of the last render call: "none", "ok", "TypeError"
    log,            \* history: one record per top-level step the loop has visited
    again,          \* history: the running / last call repeats the plan of the call before
    cMode,          \* wire-router harness: "off", "boxes" or "points" (what Init drew)
    cpc,            \* wire-router harness: "args", "path" or "mid"
    cFrom, cTo, cDx,\* wire-router harness: arguments of pathBetween
    cPts,           \* wire-router harness: four control points of a descriptor
    cPath,          \* wire-router harness: the descriptor string
    cMid            \* wire-router harness: result of bezierMidpoint

layoutVars == <<measure, plan, pc, stepIdx, cursorY, nodePositions, nodes, wires,
                labels, viewBox, status, log, again>>
curveVars == <<cMode, cpc, cFrom, cTo, cDx, cPts, cPath, cMid>>
vars == <<layoutVars, curveVars>>

(***************************************************************************)
(* Bounds of the model.                                                     *)
(***************************************************************************)
MaxSteps == 2
MaxBranches == 3
MaxSeq == 4
MaxGrid == 3

NaN == "NaN"

(***************************************************************************)
(* Numbers and their text.                                                  *)
(***************************************************************************)
Px(n) == n * 16
Abs(n) == IF n < 0 THEN -n ELSE n

DigitChars == <<"0", "1", "2", "3", "4", "5", "6", "7", "8", "9">>
DigitValues == [ch \in {DigitChars[k] : k \in 1..10} |->
                    (CHOOSE k \in 1..10 : DigitChars[k] = ch) - 1]
IsDigit(ch) == ch \in DOMAIN DigitValues
DigitValue(ch) == DigitValues[ch]

RECURSIVE NatDigits(_)
NatDigits(n) ==
    IF n < 10 THEN <<DigitChars[n + 1]>>
    ELSE NatDigits(n \div 10) \o <<DigitChars[(n % 10) + 1]>>

RECURSIVE StripZeros(_)
StripZeros(s) ==
    IF s # <<>> /\ s[Len(s)] = "0" THEN StripZeros(SubSeq(s, 1, Len(s) - 1)) ELSE s

\* The four decimals of k sixteenths (k in 0..15): k * 625 ten-thousandths.
FractionDigits(k) ==
    LET t == k * 625
    IN  StripZeros(<<DigitChars[(t \div 1000) + 1], DigitChars[((t \div 100) % 10) + 1],
                     DigitChars[((t \div 10) % 10) + 1], DigitChars[(t % 10) + 1]>>)

\* Number-to-string of a template literal `${n}`: shortest decimal, "-" sign.
NumberToString(n) ==
    LET a == Abs(n)
        f == FractionDigits(a % 16)
    IN  (IF n < 0 THEN <<"-">> ELSE <<>>) \o NatDigits(a \div 16)
        \o (IF f = <<>> THEN <<>> ELSE <<".">> \o f)

RECURSIVE DigitsToNat(_)
DigitsToNat(s) ==
    IF s = <<>> THEN 0
    ELSE 10 * DigitsToNat(SubSeq(s, 1, Len(s) - 1)) + DigitValue(s[Len(s)])

RECURSIVE Pow10(_)
Pow10(k) == IF k = 0 THEN 1 ELSE 10 * Pow10(k - 1)

RECURSIVE IndexOf(_, _, _)
IndexOf(s, ch, i) ==
    IF i > Len(s) THEN 0 ELSE IF s[i] = ch THEN i ELSE IndexOf(s, ch, i + 1)

\* Number(text) for a text the regular expression of bezierMidpoint matched.
StringToNumber(s) ==
    LET neg  == s[1] = "-"
        body == IF neg THEN SubSeq(s, 2, Len(s)) ELSE s
        dot  == IndexOf(body, ".", 1)
        ip   == IF dot = 0 THEN body ELSE SubSeq(body, 1, dot - 1)
        fp   == IF dot = 0 THEN <<>> ELSE SubSeq(body, dot + 1, Len(body))
        mag  == DigitsToNat(ip) * 16 + (DigitsToNat(fp) * 16) \div Pow10(Len(fp))
    IN  IF neg THEN -mag ELSE mag

(***************************************************************************)
(* Wire router.                                                             *)
(***************************************************************************)
pathBetweenBottomAnchor(from, to, dx) ==
    LET x1 == from.x + from.w
        y1 == from.y + from.h
        x2 == to.x
        y2 == to.y + to.h \div 2
        cx1 == x1 + dx
        cx2 == x2 - dx
    IN  <<"M", " ">> \o NumberToString(x1) \o <<" ">> \o NumberToString(y1)
        \o <<" ", "C", " ">> \o NumberToString(cx1) \o <<" ">> \o NumberToString(y1)
        \o <<",", " ">> \o NumberToString(cx2) \o <<" ">> \o NumberToString(y2)
        \o <<",", " ">> \o NumberToString(x2) \o <<" ">> \o NumberToString(y2)

pathBetween(from, to, dx) ==
    LET x1 == from.x + from.w
        y1 == from.y + from.h \div 2
        x2 == to.x
        y2 == to.y + to.h \div 2
        cx1 == x1 + dx
        cx2 == x2 - dx
    IN  <<"M", " ">> \o NumberToString(x1) \o <<" ">> \o NumberToString(y1)
        \o <<" ", "C", " ">> \o NumberToString(cx1) \o <<" ">> \o NumberToString(y1)
        \o <<",", " ">> \o NumberToString(cx2) \o <<" ">> \o NumberToString(y2)
        \o <<",", " ">> \o NumberToString(x2) \o <<" ">> \o NumberToString(y2)

\* The regular expression /-?\d+(\.\d+)?/g of bezierMidpoint.
RECURSIVE DigitRunEnd(_, _)
DigitRunEnd(d, i) ==
    IF i <= Len(d) /\ IsDigit(d[i]) THEN DigitRunEnd(d, i + 1) ELSE i

\* First position after the match that starts at i, or 0 when none starts there.
MatchEnd(d, i) ==
    LET s  == IF d[i] = "-" THEN i + 1 ELSE i
        e1 == DigitRunEnd(d, s)
        e2 == DigitRunEnd(d, e1 + 1)
    IN  IF e1 = s THEN 0
        ELSE IF e1 <= Len(d) /\ d[e1] = "." /\ e2 > e1 + 1 THEN e2
        ELSE e1

RECURSIVE MatchAll(_, _)
MatchAll(d, i) ==
    IF i > Len(d) THEN <<>>
    ELSE LET e == MatchEnd(d, i)
         IN  IF e = 0 THEN MatchAll(d, i + 1)
             ELSE <<SubSeq(d, i, e - 1)>> \o MatchAll(d, e)

\* (a + b) / 2 on JavaScript numbers.
Half2(a, b) == (a + b) \div 2

\* The matches of the regular expression, each through Number.
ToNumbers(matches) == [k \in DOMAIN matches |-> StringToNumber(matches[k])]
Numbers(d) == ToNumbers(MatchAll(d, 1))

\* nums[k], or 0 in place of the undefined a missing match destructures to; the
\* coordinate computed from it is then NaN.
Num(nums, k) == IF k <= Len(nums) THEN nums[k] ELSE 0

chordMidpoint(nums) ==
    [x |-> IF Len(nums) >= 7 THEN Half2(Num(nums, 1), Num(nums, 7)) ELSE NaN,
     y |-> IF Len(nums) >= 8 THEN Half2(Num(nums, 2), Num(nums, 8)) ELSE NaN]

\* De Casteljau at t = 0.5 on [x1, y1, cx1, cy1, cx2, cy2, x2, y2] = nums.
deCasteljau(nums) ==
    LET x1 == Num(nums, 1)  y1 == Num(nums, 2)  cx1 == Num(nums, 3)  cy1 == Num(nums, 4)
        cx2 == Num(nums, 5) cy2 == Num(nums, 6) x2 == Num(nums, 7)   y2 == Num(nums, 8)
        q0x == Half2(x1, cx1)   q0y == Half2(y1, cy1)
        q1x == Half2(cx1, cx2)  q1y == Half2(cy1, cy2)
        q2x == Half2(cx2, x2)   q2y == Half2(cy2, y2)
        r0x == Half2(q0x, q1x)  r0y == Half2(q0y, q1y)
        r1x == Half2(q1x, q2x)  r1y == Half2(q1y, q2y)
    IN  [x |-> IF Len(nums) >= 7 THEN Half2(r0x, r1x) ELSE NaN,
         y |-> IF Len(nums) >= 8 THEN Half2(r0y, r1y) ELSE NaN]

bezierMidpoint(d) == deCasteljau(Numbers(d))

\* A descriptor in the format bezierMidpoint documents, "M x y C cx1 cy1, cx2 cy2, x y",
\* written from four control points.
Descriptor(P) ==
    <<"M", " ">> \o NumberToString(P[1][1]) \o <<" ">> \o NumberToString(P[1][2])
    \o <<" ", "C", " ">> \o NumberToString(P[2][1]) \o <<" ">> \o NumberToString(P[2][2])
    \o <<",", " ">> \o NumberToString(P[3][1]) \o <<" ">> \o NumberToString(P[3][2])
    \o <<",", " ">> \o NumberToString(P[4][1]) \o <<" ">> \o NumberToString(P[4][2])

(***************************************************************************)
(* Plan model: the values render is called with.                            *)
(***************************************************************************)
originX == 140
originY == 160
columnWidth == 320
gapY == 140
verticalPad == 200
rowHeight == 120
blockGap == 40
branchDx == 70
seqDx == 60

\* String.prototype.toUpperCase on the provider / call_type texts of the plans.
ToUpperCase(s) ==
    CASE s = "slack" -> "SLACK"
      [] s = "Composio" -> "COMPOSIO"
      [] OTHER -> s

\* The action of the i-th branch (0-based) of a well-formed split.
ActionAt(i) ==
    CASE i = 0 -> [id |-> "add_to_channel", provider |-> "slack", label |-> "Add to channel"]
      [] i = 1 -> [id |-> "update_profile", provider |-> "slack", label |-> "Update profile"]
      [] OTHER -> [id |-> "action_" \o ToString(i), label |-> "Action " \o ToString(i)]

LabelAt(i) ==
    CASE i = 0 -> "true"
      [] i = 1 -> "false"
      [] OTHER -> "case_" \o ToString(i)

\* The idx-th inline action (0-based) of a sequential block.
InlineAt(idx) ==
    CASE idx = 0 -> [label |-> "Create product", call_type |-> "Composio",
                     tool_name |-> "SHOPIFY_CREATE_PRODUCT"]
      [] idx = 1 -> [label |-> "Generate image", call_type |-> "SELF_MADE",
                     tool_name |-> "OPENAI_IMAGE_GENERATION"]
      [] idx = 2 -> [label |-> "Expose file", call_type |-> "SELF_MADE",
                     tool_name |-> "EXPOSE_FILE_ON_URL"]
      [] idx = 3 -> [label |-> "Attach image", call_type |-> "Composio",
                     tool_name |-> "SHOPIFY_CREATE_PRODUCT_IMAGE"]
      [] OTHER -> [tool_name |-> "TOOL_" \o ToString(idx)]

SequentialOf(k) == [sequential |-> [j \in 1..k |-> InlineAt(j - 1)]]

\* Shapes of a branch: a well-formed one (the third branch of a split carries a
\* second step, which the layout ignores), and the shapes the type Branch admits
\* that the layout takes no care of.
BranchKinds == {"ok", "dup", "splitId", "emptyId", "empty", "nonAction"}

BranchOf(i, kind, splitId) ==
    [label |-> LabelAt(i),
     steps |->
        CASE kind = "ok" -> <<[action |-> ActionAt(i)]>> \o
                            (IF i = 2 THEN <<[action |-> ActionAt(0)]>> ELSE <<>>)
          [] kind = "dup" -> <<[action |-> ActionAt(0)]>>
          [] kind = "splitId" -> <<[action |-> [ActionAt(i) EXCEPT !.id = splitId]]>>
          [] kind = "emptyId" -> <<[action |-> [ActionAt(i) EXCEPT !.id = ""]]>>
          [] kind = "empty" -> <<>>
          [] kind = "nonAction" -> <<SequentialOf(1), [action |-> ActionAt(i)]>>]

\* A split of n branches whose last branch has the given shape.
SplitOf(n, kind) ==
    [split |-> [id |-> "is_manager", label |-> "Is manager?",
                branches |-> [j \in 1..n |->
                    BranchOf(j - 1, IF j = n THEN kind ELSE "ok", "is_manager")]]]

BareAction == [action |-> [id |-> "notify", label |-> "Notify"]]

\* Splits of 0..MaxBranches well-formed branches, and the two-branch splits whose
\* second branch has each of the other shapes.
Steps ==
    {SplitOf(n, "ok") : n \in 0..MaxBranches}
    \cup {SplitOf(2, kind) : kind \in BranchKinds}
    \cup {SequentialOf(k) : k \in 0..MaxSeq}
    \cup {BareAction}

RECURSIVE SeqsUpTo(_, _)
SeqsUpTo(S, n) ==
    IF n = 0 THEN {<<>>}
    ELSE LET shorter == SeqsUpTo(S, n - 1)
         IN  shorter \cup {Append(q, e) : q \in {t \in shorter : Len(t) = n - 1}, e \in S}

Plans == {[steps |-> q] : q \in SeqsUpTo(Steps, MaxSteps)}

example == [steps |-> <<SplitOf(2, "ok"), SequentialOf(4)>>]

\* Sizes the renderer reports, by node type (getBoundingClientRect).
Profiles ==
    {[decision |-> [w |-> Px(100), h |-> Px(40)], action |-> [w |-> Px(100), h |-> Px(40)]],
     [decision |-> [w |-> Px(181), h |-> Px(57)], action |-> [w |-> Px(160), h |-> Px(45)]]}

(***************************************************************************)
(* Layout engine.  A drawing is the record                                  *)
(*   [nodes, nodePositions, wires, labels, threw]                           *)
(* of what render has put on the canvas and in the svg so far; threw says   *)
(* that a TypeError has left the pass.                                      *)
(***************************************************************************)
EmptyPositions == [k \in {} |-> 0]

Cleared ==
    [nodes |-> <<>>, nodePositions |-> EmptyPositions, wires |-> <<>>, labels |-> <<>>,
     threw |-> FALSE]

clearAllKeepsLabels(st) == [Cleared EXCEPT !.labels = st.labels]

\* The first three statements of render: remove every .node and .branch-label of
\* the canvas and every child of the svg, and reset nodePositions.
clearAll(st) == Cleared

\* nodePositions[id] = box
Put(np, id, box) == [k \in DOMAIN np \cup {id} |-> IF k = id THEN box ELSE np[k]]

\* el is the canvas child the box belongs to, by its position among the nodes.
createNode(m, st, id, opts) ==
    [st EXCEPT
        !.nodes = Append(@, [id |-> id, type |-> opts.type, title |-> opts.title,
                             subtitle |-> opts.subtitle, x |-> opts.x, y |-> opts.y]),
        !.nodePositions = Put(@, id, [x |-> opts.x, y |-> opts.y, w |-> m[opts.type].w,
                                      h |-> m[opts.type].h, el |-> Len(st.nodes) + 1])]

addWire(st, d) == [st EXCEPT !.wires = Append(@, d)]

labelAt(st, mid, text) ==
    [st EXCEPT !.labels = Append(@, [x |-> mid.x, y |-> mid.y, text |-> text])]

Throw(st) == [st EXCEPT !.threw = TRUE]

\* addWire(d); labelAt(bezierMidpoint(d), text)
wireWithLabel(st, d, text) == labelAt(addWire(st, d), bezierMidpoint(d), text)

\* The wire of a branch: from nodePositions[split.id] to nodePositions[id], dx 70.
branchWire(st, splitId, id, text) ==
    wireWithLabel(st, pathBetween(st.nodePositions[splitId], st.nodePositions[id],
                                  Px(branchDx)), text)

\* The callback of branches.forEach for branch br at index i, cursor c.
branchBody(m, st, split, br, c, i) ==
    IF br.steps = <<>> THEN Throw(st)                             \* first is undefined
    ELSE IF "action" \notin DOMAIN br.steps[1] THEN Throw(st)     \* first.action.label
    ELSE
    LET a    == br.steps[1].action
        id   == IF a.id # "" THEN a.id ELSE "b" \o ToString(i)
        prov == IF "provider" \in DOMAIN a THEN a.provider ELSE ""
    IN  branchWire(createNode(m, st, id,
                       [title |-> a.label, subtitle |-> ToUpperCase(prov),
                        type |-> "action", x |-> Px(originX + columnWidth) + i * 0,
                        y |-> c + i * Px(gapY)]),
                   split.id, id, br.label)

\* branches.forEach((br, i) => ...) from index i on.
RECURSIVE forEachBranch(_, _, _, _, _)
forEachBranch(m, st, split, c, i) ==
    IF st.threw \/ i >= Len(split.branches) THEN st
    ELSE forEachBranch(m, branchBody(m, st, split, split.branches[i + 1], c, i),
                       split, c, i + 1)

advanceNothing(st, split, c) == [st |-> st, cursorY |-> c]

\* cursorY += (split.branches.length - 1) * gapY + 200, unless the loop threw.
advanceCursor(st, split, c) ==
    [st |-> st,
     cursorY |-> IF st.threw THEN c
                 ELSE c + (Len(split.branches) - 1) * Px(gapY) + Px(verticalPad)]

splitCaseSkipFirstBranch(m, st, step, c) ==
    advanceCursor(
        forEachBranch(m, createNode(m, st, step.split.id,
                             [title |-> step.split.label, subtitle |-> "",
                              type |-> "decision", x |-> Px(originX), y |-> c]),
                      step.split, c, 1),
        step.split, c)

\* The body of `if ("split" in step)`: the drawing and the cursor after it.
splitCase(m, st, step, c) ==
    advanceCursor(
        forEachBranch(m, createNode(m, st, step.split.id,
                             [title |-> step.split.label, subtitle |-> "",
                              type |-> "decision", x |-> Px(originX), y |-> c]),
                      step.split, c, 0),
        step.split, c)

\* if (prevId) addWire(pathBetween(nodePositions[prevId], nodePositions[id], 60));
\* prevId "" is null.
linkToPrev(st, prevId, id) ==
    IF prevId # ""
    THEN addWire(st, pathBetween(st.nodePositions[prevId], st.nodePositions[id],
                                 Px(seqDx)))
    ELSE st

\* The callback of step.sequential.forEach for inline action a at index idx.
inlineBody(m, st, a, id, c, idx, prevId) ==
    linkToPrev(createNode(m, st, id,
                   [title |-> IF "label" \in DOMAIN a /\ a.label # "" THEN a.label
                              ELSE a.tool_name,
                    subtitle |-> ToUpperCase(IF "call_type" \in DOMAIN a THEN a.call_type
                                             ELSE ""),
                    type |-> "action", x |-> Px(originX), y |-> c + idx * Px(rowHeight)]),
               prevId, id)

seqId(idx, a) == "seq_" \o ToString(idx) \o "_" \o a.tool_name

RECURSIVE forEachInlineForgetPrev(_, _, _, _, _, _)
forEachInlineForgetPrev(m, st, seq, c, idx, prevId) ==
    IF idx >= Len(seq) THEN st
    ELSE forEachInlineForgetPrev(m,
             inlineBody(m, st, seq[idx + 1], seqId(idx, seq[idx + 1]), c, idx, prevId),
             seq, c, idx + 1, IF idx = 0 THEN "" ELSE seqId(idx, seq[idx + 1]))

\* step.sequential.forEach((a, idx) => ...) from index idx on.
RECURSIVE forEachInline(_, _, _, _, _, _)
forEachInline(m, st, seq, c, idx, prevId) ==
    IF idx >= Len(seq) THEN st
    ELSE forEachInline(m,
             inlineBody(m, st, seq[idx + 1], seqId(idx, seq[idx + 1]), c, idx, prevId),
             seq, c, idx + 1, seqId(idx, seq[idx + 1]))

\* The body of `if ("sequential" in step)`.
sequentialCase(m, st, step, c) ==
    [st |-> forEachInline(m, st, step.sequential, c, 0, ""),
     cursorY |-> c + Len(step.sequential) * Px(rowHeight) + Px(blockGap)]

\* The second if of the loop body, on the result r of the first.
ifSequential(m, r, step) ==
    IF r.st.threw THEN r
    ELSE IF "sequential" \in DOMAIN step THEN sequentialCase(m, r.st, step, r.cursorY)
    ELSE r

\* The first if of the loop body.
ifSplit(m, st, step, c) ==
    IF "split" \in DOMAIN step THEN splitCase(m, st, step, c)
    ELSE [st |-> st, cursorY |-> c]

actionDrawn(m, r, step) ==
    IF "action" \in DOMAIN step
    THEN [st |-> createNode(m, r.st, step.action.id,
                     [title |-> step.action.label, subtitle |-> "", type |-> "action",
                      x |-> Px(originX), y |-> r.cursorY]),
          cursorY |-> r.cursorY + Px(rowHeight)]
    ELSE r

visitStepActionsDrawn(m, st, step, c) ==
    actionDrawn(m, ifSequential(m, ifSplit(m, st, step, c), step), step)

\* One iteration of `for (const step of plan.steps)`: both ifs, in order.
visitStep(m, st, step, c) == ifSequential(m, ifSplit(m, st, step, c), step)

\* The loop of render over steps[i..], from r = [st: drawing, cursorY].
RECURSIVE renderLoop(_, _, _, _)
renderLoop(m, r, steps, i) ==
    IF r.st.threw \/ i > Len(steps) THEN r.st
    ELSE renderLoop(m, visitStep(m, r.st, steps[i], r.cursorY), steps, i + 1)

\* What render(p) leaves on an empty canvas.
RenderAlone(m, p) == renderLoop(m, [st |-> Cleared, cursorY |-> Px(originY)], p.steps, 1)

(***************************************************************************)
(* The program: calls of render.  JavaScript runs a call to completion, so  *)
(* no other call starts while pc = "loop"; the loop is split at its         *)
(* iterations only to make the cursor observable.                           *)
(***************************************************************************)
Drawing ==
    [nodes |-> nodes, nodePositions |-> nodePositions, wires |-> wires, labels |-> labels,
     threw |-> FALSE]

NoCurve ==
    /\ cMode = "off"
    /\ cpc = "args"
    /\ cFrom = [x |-> 0, y |-> 0, w |-> 0, h |-> 0]
    /\ cTo = [x |-> 0, y |-> 0, w |-> 0, h |-> 0]
    /\ cDx = 0
    /\ cPts = <<>>
    /\ cPath = <<>>
    /\ cMid = [x |-> 0, y |-> 0]

NoLayout ==
    /\ plan = [steps |-> <<>>]
    /\ pc = "idle"
    /\ stepIdx = 1
    /\ cursorY = Px(originY)
    /\ nodePositions = EmptyPositions
    /\ nodes = <<>>
    /\ wires = <<>>
    /\ labels = <<>>
    /\ viewBox = "unset"
    /\ status = "none"
    /\ log = <<>>
    /\ again = FALSE

Init ==
    /\ measure \in Profiles
    /\ NoLayout
    /\ NoCurve

\* The one-split plan: its drawing has nodes, wires and labels.
Seed == [steps |-> <<SplitOf(2, "ok")>>]

\* The calls the model follows.  The first call, and a call after the one-split
\* plan, passes any plan; any other call repeats the plan (the resize handler) or
\* passes the one-split plan.
NextPlans ==
    IF status = "none" \/ plan = Seed THEN Plans ELSE {plan, Seed}

\* render(p) up to the loop: clear, then cursorY = originY.
RenderBegin(p) ==
    /\ pc = "idle"
    /\ LET s == clearAll(Drawing)
       IN  /\ nodes' = s.nodes
           /\ nodePositions' = s.nodePositions
           /\ wires' = s.wires
           /\ labels' = s.labels
    /\ plan' = p
    /\ pc' = "loop"
    /\ stepIdx' = 1
    /\ cursorY' = Px(originY)
    /\ status' = "running"
    /\ log' = <<>>
    /\ again' = (status # "none" /\ p = plan)
    /\ UNCHANGED <<measure, viewBox, curveVars>>

\* One iteration of the loop; a TypeError leaves render with the drawing as it is.
Visit ==
    /\ pc = "loop"
    /\ stepIdx <= Len(plan.steps)
    /\ \E r \in {visitStep(measure, Drawing, plan.steps[stepIdx], cursorY)} :
           /\ nodes' = r.st.nodes
           /\ nodePositions' = r.st.nodePositions
           /\ wires' = r.st.wires
           /\ labels' = r.st.labels
           /\ cursorY' = r.cursorY
           /\ log' = Append(log, [cursorBefore |-> cursorY, cursorAfter |-> r.cursorY,
                                  nodes0 |-> Len(nodes), wires0 |-> Len(wires),
                                  labels0 |-> Len(labels),
                                  keys0 |-> Cardinality(DOMAIN nodePositions),
                                  threw |-> r.st.threw])
           /\ IF r.st.threw
              THEN pc' = "idle" /\ status' = "TypeError" /\ stepIdx' = stepIdx
              ELSE pc' = "loop" /\ status' = status /\ stepIdx' = stepIdx + 1
    /\ UNCHANGED <<measure, plan, viewBox, again, curveVars>>

InLoop == pc = "loop" /\ stepIdx <= Len(plan.steps)

VisitSplit == InLoop /\ "split" \in DOMAIN plan.steps[stepIdx] /\ Visit
VisitSequential == InLoop /\ "sequential" \in DOMAIN plan.steps[stepIdx] /\ Visit
VisitAction == InLoop /\ "action" \in DOMAIN plan.steps[stepIdx] /\ Visit

\* After the loop: the svg is sized to the canvas, and render returns.
RenderEnd ==
    /\ pc = "loop"
    /\ stepIdx > Len(plan.steps)
    /\ viewBox' = "content"
    /\ pc' = "idle"
    /\ status' = "ok"
    /\ UNCHANGED <<measure, plan, stepIdx, cursorY, nodePositions, nodes, wires, labels,
                   log, again, curveVars>>

Next ==
    \/ \E p \in NextPlans : RenderBegin(p)
    \/ VisitSplit
    \/ VisitSequential
    \/ VisitAction
    \/ RenderEnd

Spec == Init /\ [][Next]_vars

(***************************************************************************)
(* The wire router on its own: Init draws the arguments, the actions apply  *)
(* pathBetween and bezierMidpoint.                                          *)
(***************************************************************************)
GridBoxes ==
    [x : {Px(100 * k) : k \in -MaxGrid..MaxGrid}, y : {Px(-100), 0, Px(100)},
     w : {Px(100)}, h : {Px(40), Px(57)}]

ControlPoints ==
    {<<0, 0>>, <<Px(60), 0>>, <<Px(240), Px(120)>>, <<Px(300), Px(120)>>,
     <<Px(-50), Px(-30)>>, <<Px(21) \div 2, Px(7)>>}

InitCurve ==
    /\ measure \in Profiles
    /\ NoLayout
    /\ cpc = "args"
    /\ cPath = <<>>
    /\ cMid = [x |-> 0, y |-> 0]
    /\ \/ /\ cMode = "boxes"
          /\ cFrom \in GridBoxes
          /\ cTo \in GridBoxes
          /\ cDx \in {Px(seqDx), Px(branchDx)}
          /\ cPts = <<>>
       \/ /\ cMode = "points"
          /\ cFrom = [x |-> 0, y |-> 0, w |-> 0, h |-> 0]
          /\ cTo = [x |-> 0, y |-> 0, w |-> 0, h |-> 0]
          /\ cDx = 0
          /\ cPts \in ControlPoints \X ControlPoints \X ControlPoints \X ControlPoints

RouteCurve ==
    /\ cMode = "boxes"
    /\ cpc = "args"
    /\ cPath' = pathBetween(cFrom, cTo, cDx)
    /\ cpc' = "path"
    /\ UNCHANGED <<layoutVars, cMode, cFrom, cTo, cDx, cPts, cMid>>

Describe ==
    /\ cMode = "points"
    /\ cpc = "args"
    /\ cPath' = Descriptor(cPts)
    /\ cpc' = "path"
    /\ UNCHANGED <<layoutVars, cMode, cFrom, cTo, cDx, cPts, cMid>>

Midpoint ==
    /\ cpc = "path"
    /\ cMid' = bezierMidpoint(cPath)
    /\ cpc' = "mid"
    /\ UNCHANGED <<layoutVars, cMode, cFrom, cTo, cDx, cPts, cPath>>

NextCurve == RouteCurve \/ Describe \/ Midpoint

SpecCurve == InitCurve /\ [][NextCurve]_vars

AnchorOut(b) == <<b.x + b.w, b.y + b.h \div 2>>
AnchorIn(b) == <<b.x, b.y + b.h \div 2>>

(***************************************************************************)
(* C3.  pathBetween(from, to, dx) starts at the right-middle anchor of from,*)
(* ends at the left-middle anchor of to, and its control points are the     *)
(* anchors moved by dx towards each other along x.                          *)
(***************************************************************************)
C3_Anchors ==
    (cMode = "boxes" /\ cpc # "args") =>
        /\ cPath[1] = "M"
        /\ Numbers(cPath) =
              <<AnchorOut(cFrom)[1], AnchorOut(cFrom)[2],
                AnchorOut(cFrom)[1] + cDx, AnchorOut(cFrom)[2],
                AnchorIn(cTo)[1] - cDx, AnchorIn(cTo)[2],
                AnchorIn(cTo)[1], AnchorIn(cTo)[2]>>

\* A = (0,0,100,40), B = (300,100,100,40), dx = 60: from (100,20) to (300,120).
C3_Witness ==
    /\ cMode = "boxes" /\ cpc = "path"
    /\ cFrom = [x |-> 0, y |-> 0, w |-> Px(100), h |-> Px(40)]
    /\ cTo = [x |-> Px(300), y |-> Px(100), w |-> Px(100), h |-> Px(40)]
    /\ cDx = Px(60)
    /\ SubSeq(Numbers(cPath), 1, 2) = <<Px(100), Px(20)>>
    /\ SubSeq(Numbers(cPath), 7, 8) = <<Px(300), Px(120)>>

CurvePoints ==
    IF cMode = "points" THEN cPts
    ELSE <<AnchorOut(cFrom), <<AnchorOut(cFrom)[1] + cDx, AnchorOut(cFrom)[2]>>,
           <<AnchorIn(cTo)[1] - cDx, AnchorIn(cTo)[2]>>, AnchorIn(cTo)>>

(***************************************************************************)
(* C4.  bezierMidpoint returns the curve point at t = 0.5,                  *)
(* (P0 + 3 P1 + 3 P2 + P3) / 8 in each coordinate, for a descriptor written *)
(* from four control points and for the descriptor pathBetween emits.       *)
(***************************************************************************)
C4_Midpoint ==
    cpc = "mid" =>
        LET P == CurvePoints
        IN  /\ 8 * cMid.x = P[1][1] + 3 * P[2][1] + 3 * P[3][1] + P[4][1]
            /\ 8 * cMid.y = P[1][2] + 3 * P[2][2] + 3 * P[3][2] + P[4][2]

\* (0,0), (60,0), (240,120), (300,120) has its midpoint at (150,60).
C4_Witness ==
    /\ cMode = "points" /\ cpc = "mid"
    /\ cPts = <<<<0, 0>>, <<Px(60), 0>>, <<Px(240), Px(120)>>, <<Px(300), Px(120)>>>>
    /\ cMid = [x |-> Px(150), y |-> Px(60)]

(***************************************************************************)
(* Reading the history: the step the loop visited last and what it added.   *)
(***************************************************************************)
Last == log[Len(log)]
LastStep == plan.steps[Len(log)]
NewNodes == SubSeq(nodes, Last.nodes0 + 1, Len(nodes))
NewWires == SubSeq(wires, Last.wires0 + 1, Len(wires))
NewLabels == SubSeq(labels, Last.labels0 + 1, Len(labels))
Returned == pc = "idle" /\ status # "none"

\* The box of a node placed at (x, y): its place and the size the renderer reports.
BoxOf(n) == [x |-> n.x, y |-> n.y, w |-> measure[n.type].w, h |-> measure[n.type].h]

\* The wire d runs from the right-middle anchor of box a to the left-middle of b.
Joins(d, a, b) ==
    /\ SubSeq(Numbers(d), 1, 2) = AnchorOut(a)
    /\ SubSeq(Numbers(d), 7, 8) = AnchorIn(b)

\* The point at t = 0.5 of the cubic d holds.
AtMidpoint(pt, d) ==
    /\ 8 * pt.x = Numbers(d)[1] + 3 * Numbers(d)[3] + 3 * Numbers(d)[5] + Numbers(d)[7]
    /\ 8 * pt.y = Numbers(d)[2] + 3 * Numbers(d)[4] + 3 * Numbers(d)[6] + Numbers(d)[8]

(***************************************************************************)
(* C1.  After any sequence of render calls, the node boxes, the curves and  *)
(* the labels are those a single render of the last plan leaves on an empty *)
(* canvas: nothing of an earlier pass survives, and a repeated call gives   *)
(* the same drawing.                                                        *)
(***************************************************************************)
C1_Idempotent ==
    Returned =>
        \A alone \in {RenderAlone(measure, plan)} :
            /\ nodes = alone.nodes
            /\ nodePositions = alone.nodePositions
            /\ wires = alone.wires
            /\ labels = alone.labels
            /\ (status = "TypeError") = alone.threw

\* render(example) called twice in succession has returned.
C1_Witness ==
    /\ Returned /\ again /\ status = "ok" /\ plan = example
    /\ nodes # <<>> /\ wires # <<>> /\ labels # <<>>

(***************************************************************************)
(* C2.  render(example) leaves exactly 7 nodes (the decision node, the 2    *)
(* branch actions and the 4 sequential actions), 5 curves and the 2 branch  *)
(* labels "true" and "false", whatever was drawn before.                    *)
(***************************************************************************)
C2_Example ==
    (Returned /\ plan = example) =>
        /\ status = "ok"
        /\ Len(nodes) = 7
        /\ Cardinality(DOMAIN nodePositions) = 7
        /\ Len(wires) = 5
        /\ [k \in DOMAIN labels |-> labels[k].text] = <<"true", "false">>

C2_Witness ==
    /\ Returned /\ plan = example /\ viewBox = "content"
    /\ [k \in DOMAIN nodes |-> nodes[k].type] =
          <<"decision", "action", "action", "action", "action", "action", "action">>

\* C2 as the specification states it: exactly 6 nodes, 5 curves, 2 labels.
C2_SixNodes ==
    (Returned /\ plan = example) =>
        /\ status = "ok"
        /\ Len(nodes) = 6
        /\ Len(wires) = 5
        /\ [k \in DOMAIN labels |-> labels[k].text] = <<"true", "false">>

(***************************************************************************)
(* C5.  A split visited with cursor c and n branches: the decision node is  *)
(* at (140, c); branch i's first action is at (460, c + i * 140), with one  *)
(* wire from the decision node to it and the branch's label at the wire's   *)
(* midpoint; afterwards the cursor is c + (n - 1) * 140 + 200.              *)
(***************************************************************************)
C5_Split ==
    (log # <<>> /\ "split" \in DOMAIN LastStep /\ ~Last.threw) =>
        LET split == LastStep.split
            n == Len(split.branches)
            c == Last.cursorBefore
        IN  /\ Len(NewNodes) = n + 1
            /\ Len(NewWires) = n
            /\ Len(NewLabels) = n
            /\ NewNodes[1].type = "decision"
            /\ NewNodes[1].x = Px(140) /\ NewNodes[1].y = c
            /\ \A i \in 0..(n - 1) :
                  /\ NewNodes[i + 2].title = split.branches[i + 1].steps[1].action.label
                  /\ NewNodes[i + 2].x = Px(460)
                  /\ NewNodes[i + 2].y = c + i * Px(140)
                  /\ Joins(NewWires[i + 1], BoxOf(NewNodes[1]), BoxOf(NewNodes[i + 2]))
                  /\ NewLabels[i + 1].text = split.branches[i + 1].label
                  /\ AtMidpoint(NewLabels[i + 1], NewWires[i + 1])
            /\ cursorY = c + (n - 1) * Px(140) + Px(200)

(***************************************************************************)
(* C6.  A sequential step visited with cursor c and k inline actions: node  *)
(* idx is at (140, c + idx * 120) in list order; max(0, k - 1) wires, the   *)
(* wire of idx >= 1 from the box of node idx - 1 to the box of node idx; no *)
(* labels; the ids of the block are pairwise distinct; afterwards the       *)
(* cursor is c + k * 120 + 40.                                              *)
(***************************************************************************)
C6_Sequential ==
    (log # <<>> /\ "sequential" \in DOMAIN LastStep) =>
        LET seq == LastStep.sequential
            k == Len(seq)
            c == Last.cursorBefore
        IN  /\ ~Last.threw
            /\ Len(NewNodes) = k
            /\ \A idx \in 0..(k - 1) :
                  /\ NewNodes[idx + 1].x = Px(140)
                  /\ NewNodes[idx + 1].y = c + idx * Px(120)
                  /\ NewNodes[idx + 1].title =
                        IF "label" \in DOMAIN seq[idx + 1] THEN seq[idx + 1].label
                        ELSE seq[idx + 1].tool_name
            /\ Len(NewWires) = IF k = 0 THEN 0 ELSE k - 1
            /\ \A idx \in 1..(k - 1) :
                  Joins(NewWires[idx], BoxOf(NewNodes[idx]), BoxOf(NewNodes[idx + 1]))
            /\ NewLabels = <<>>
            /\ \A i, j \in 1..k : i # j => NewNodes[i].id # NewNodes[j].id
            /\ cursorY = c + k * Px(120) + Px(40)

\* 4 steps from c = 160: y = 160, 280, 400, 520 and exactly 3 curves.
C6_Witness ==
    /\ Len(log) = 1 /\ plan.steps[1] = SequentialOf(4)
    /\ [k \in DOMAIN nodes |-> nodes[k].y] = <<Px(160), Px(280), Px(400), Px(520)>>
    /\ Len(wires) = 3

(***************************************************************************)
(* C7.  Two nodes of one pass never share a key of the node-box mapping:    *)
(* after a render that completes, the mapping has one entry per node        *)
(* created.                                                                 *)
(***************************************************************************)
C7_OneEntryPerNode ==
    (Returned /\ status = "ok") => Cardinality(DOMAIN nodePositions) = Len(nodes)

MalformedBranch(br) == br.steps = <<>> \/ "action" \notin DOMAIN br.steps[1]

MalformedSplit(step) ==
    /\ "split" \in DOMAIN step
    /\ \/ step.split.branches = <<>>
       \/ \E j \in DOMAIN step.split.branches : MalformedBranch(step.split.branches[j])

(***************************************************************************)
(* C8.  render of a plan with a malformed split (no branches, a branch with *)
(* no steps, a branch whose first step is not an Action) fails: it never    *)
(* completes normally.                                                      *)
(***************************************************************************)
C8_MalformedFails ==
    (Returned /\ \E k \in DOMAIN plan.steps : MalformedSplit(plan.steps[k])) =>
        status # "ok"

(***************************************************************************)
(* C9.  The cursor starts at 160 and strictly increases across each split   *)
(* or sequential step, and every node of a later top-level step lies        *)
(* strictly below every node of the earlier steps.                          *)
(***************************************************************************)
C9_Stacked ==
    /\ (pc = "loop" /\ log = <<>>) => cursorY = Px(160)
    /\ log # <<>> =>
        /\ (~Last.threw /\ "action" \notin DOMAIN LastStep) =>
              Last.cursorAfter > Last.cursorBefore
        /\ \A new \in (Last.nodes0 + 1)..Len(nodes), old \in 1..Last.nodes0 :
              nodes[new].y > nodes[old].y

\* A split without branches moved the cursor, and the sequential block after
\* it put its nodes below the decision node.
C9_Witness ==
    /\ Len(log) = 2
    /\ plan.steps[1] = SplitOf(0, "ok") /\ plan.steps[2] = SequentialOf(2)
    /\ log[1].cursorAfter > log[1].cursorBefore
    /\ log[2].cursorAfter > log[2].cursorBefore
    /\ Last.nodes0 = 1 /\ Len(nodes) = 3

NotBareAction(step) == "action" \notin DOMAIN step

(***************************************************************************)
(* C10.  A top-level step that is a bare Action is skipped: no node, wire,  *)
(* label or mapping entry, cursor unchanged; the drawing is that of the     *)
(* plan without its bare Action steps.                                      *)
(***************************************************************************)
C10_ActionSkipped ==
    /\ (log # <<>> /\ "action" \in DOMAIN LastStep) =>
          /\ NewNodes = <<>> /\ NewWires = <<>> /\ NewLabels = <<>>
          /\ Cardinality(DOMAIN nodePositions) = Last.keys0
          /\ cursorY = Last.cursorBefore
          /\ ~Last.threw
    /\ Returned =>
          \A without \in {RenderAlone(measure,
                              [steps |-> SelectSeq(plan.steps, NotBareAction)])} :
              /\ nodes = without.nodes
              /\ nodePositions = without.nodePositions
              /\ wires = without.wires
              /\ labels = without.labels

\* A bare Action before a drawn step: the call returned with the nodes of that
\* step alone, the first of them at the cursor's start.
C10_Witness ==
    /\ Returned /\ Len(plan.steps) = 2
    /\ "action" \in DOMAIN plan.steps[1]
    /\ log[1].cursorAfter = Px(160)
    /\ nodes # <<>> /\ nodes[1].y = Px(160)

====
